---- MODULE Spec2Model ----
(***************************************************************************)
(* The maximum aggregate of native-engine/datafusion-ext-plans             *)
(* (src/agg/max.rs): the descriptor AggMax, its accumulator AggMaxAccum    *)
(* and the four ways a value reaches the accumulator (partial_update,      *)
(* partial_update_all, partial_merge, partial_merge_from_array), plus      *)
(* save / save_final.                                                      *)
(*                                                                         *)
(* One behaviour is the aggregation of one logical group: the rows of the  *)
(* group (input) are handed out, each exactly once, to the accumulators of *)
(* the group's partitions, which are merged and serialized.                *)
(***************************************************************************)
EXTENDS Integers, Sequences, FiniteSets, TLC

\* ------------------------------------------------------------- bounds
\* Integer element values range over -1..MaxVal (signed) and 0..MaxVal+1
\* (unsigned); a group has at most MaxLen rows.
MaxVal == 1
MaxLen == 3
\* In the runs that mix the calls of several aggregates, the group of the
\* accumulator under test has at most MaxMixedLen rows.
MaxMixedLen == 1
\* In the runs that serialize repeatedly, the partial-state column and the
\* output column grow to at most MaxSaved rows together.
MaxSaved == 2
\* and the group has at most MaxSerializeLen rows.
MaxSerializeLen == 2

\* The accumulators of one group: three partitions, as in merge(merge(a,b),c).
AccId == {"a", "b", "c"}
\* The accumulators of the runs that serialize: a sender and a receiver.
ShuffleAccId == {"a", "b"}

\* ------------------------------------------------- element types, values
\* f32::NAN / f64::NAN: a value outside every integer range of the model,
\* on which every IEEE comparison is false.
NaN == 99

\* Option<T>: None is the empty sequence, Some(v) the sequence <<v>>.
None == <<>>
Some(v) == <<v>>
IsNone(o) == Len(o) = 0
Unwrap(o) == o[1]

FloatTags == {"Float32", "Float64"}
SignedTags == {"Int8", "Int16", "Int32", "Int64"}
UnsignedTags == {"UInt8", "UInt16", "UInt32", "UInt64"}
DateTags == {"Date32", "Date64"}

\* The ScalarValue variants partial_update and partial_update_all have an arm
\* for (besides ScalarValue::Null).
UpdateTags ==
  {"Boolean"} \cup FloatTags \cup SignedTags \cup UnsignedTags
    \cup {"Decimal128", "Utf8"} \cup DateTags

\* The pairs of variants partial_merge_scalar has an arm for: no Boolean arm.
MergeTags ==
  FloatTags \cup SignedTags \cup UnsignedTags \cup {"Decimal128", "Utf8"} \cup DateTags

\* A variant none of the matches names: it reaches the `other` arm.
OtherTags == {"LargeUtf8"}

AllTags == {"Null"} \cup UpdateTags \cup OtherTags

\* A DataType ScalarValue has no variant for: ScalarValue::try_from(DataType)
\* returns its "can't create a scalar from data_type" error.
NoScalarTags == {"Map"}

\* DataType: the tag and, for Decimal128, precision and scale.
DT(t) == [tag |-> t, p |-> 0, s |-> 0]
Decimal128(p, s) == [tag |-> "Decimal128", p |-> p, s |-> s]

SignedVals == (0 - 1)..MaxVal
UnsignedVals == 0..(MaxVal + 1)
\* "", "a", "ab", "b" as byte strings.
StrVals == {<<>>, <<97>>, <<97, 98>>, <<98>>}

Values(tag) ==
  CASE tag \in {"Null"} \cup NoScalarTags -> {}
    [] tag = "Boolean" -> BOOLEAN
    [] tag \in FloatTags -> SignedVals \cup {NaN}
    [] tag \in UnsignedTags -> UnsignedVals
    [] tag \in {"Utf8", "LargeUtf8"} -> StrVals
    [] OTHER -> SignedVals

\* ---------------------------------------------------------- comparisons
\* &str / String comparison: byte-lexicographic.
RECURSIVE StrLt(_, _)
StrLt(a, b) ==
  IF Len(b) = 0 THEN FALSE
  ELSE IF Len(a) = 0 THEN TRUE
  ELSE IF Head(a) < Head(b) THEN TRUE
  ELSE IF Head(b) < Head(a) THEN FALSE
  ELSE StrLt(Tail(a), Tail(b))

\* `x < y` of the native type of a variant (PartialOrd): false < true for
\* bool, IEEE for floats (false when either side is NaN), byte order for text.
Lt(tag, x, y) ==
  CASE tag = "Boolean" -> (x = FALSE) /\ (y = TRUE)
    [] tag \in FloatTags -> x # NaN /\ y # NaN /\ x < y
    [] tag \in {"Utf8", "LargeUtf8"} -> StrLt(x, y)
    [] OTHER -> x < y

\* `x > y`.
Gt(tag, x, y) == Lt(tag, y, x)

\* ---------------------------------------------------------- ScalarValue
\* A ScalarValue: the variant (tag, and p, s for Decimal128) and its Option.
Scalar(dt, o) == [tag |-> dt.tag, p |-> dt.p, s |-> dt.s, v |-> o]

\* ScalarValue::try_from(DataType): the null value of the type.
NullOf(dt) == Scalar(dt, None)

\* ScalarValue::get_datatype.
get_datatype(sv) == [tag |-> sv.tag, p |-> sv.p, s |-> sv.s]

\* ScalarValue::is_null.
is_null(sv) == sv.tag = "Null" \/ IsNone(sv.v)

\* An Arrow array: its data type and its entries (None = not valid).
Array(dt, data) == [tag |-> dt.tag, p |-> dt.p, s |-> dt.s, data |-> data]

\* ScalarValue equality (PartialEq): the same variant, the same precision
\* and scale, the same Option.
SameScalar(x, y) ==
  /\ x.tag = y.tag
  /\ x.p = y.p
  /\ x.s = y.s
  /\ Len(x.v) = Len(y.v)
  /\ Len(x.v) = 1 => Unwrap(x.v) = Unwrap(y.v)

\* The Result of a call and the accumulator's `partial` after it.
Returns(sv, res) == [partial |-> sv, res |-> res]

\* ------------------------------------------------- arrow compute kernels
\* The valid (non-null) entries of an array, in row order.
ValidEntries(data) == SelectSeq(data, LAMBDA o : ~IsNone(o))

\* The comparison of arrow::compute::max / max_boolean / max_string: the
\* running maximum acc is replaced by item when acc < item; for floats a NaN
\* item also replaces a non-NaN acc (NaN is the largest float).
MaxCmp(tag, acc, item) ==
  (tag \in FloatTags /\ acc # NaN /\ item = NaN) \/ Lt(tag, acc, item)

RECURSIVE MaxReduce(_, _, _)
MaxReduce(tag, acc, rest) ==
  IF Len(rest) = 0 THEN acc
  ELSE MaxReduce(tag,
                 IF MaxCmp(tag, acc, Unwrap(Head(rest))) THEN Unwrap(Head(rest)) ELSE acc,
                 Tail(rest))

\* arrow::compute::max(value): None for an array with no valid entry.
arrow_max(tag, data) ==
  LET valid == ValidEntries(data)
  IN IF Len(valid) = 0 THEN None
     ELSE Some(MaxReduce(tag, Unwrap(Head(valid)), Tail(valid)))

\* ------------------------------------------------------- AggMaxAccum
\* ScalarValue::try_from(DataType), the `try_into()` of create_accum and
\* partial_merge_from_array: the null value of the type, or the error (the
\* partial field is then not a value the caller gets).
try_from(dt) ==
  IF dt.tag \in NoScalarTags THEN Returns(NullOf(dt), "NotImplemented")
  ELSE Returns(NullOf(dt), "Ok")

\* AggMax::create_accum: partial is the null value of the declared type;
\* the error of the conversion is returned (`?`).
create_accum(dt) == try_from(dt)

\* The comparison of the row-wise numeric arms (the handle! macro and the
\* Decimal128 arm of partial_update): `new < partial.unwrap()`.
RowReplaces(tag, new, cur) == Lt(tag, new, cur)

\* The row-wise Utf8 comparison written as the numeric arms write theirs:
\* `new < v.as_ref().unwrap().as_str()`.
RowReplacesUtf8_lt(new, cur) == Lt("Utf8", new, cur)

\* The comparison of the row-wise Utf8 arm: `new > v.as_ref().unwrap().as_str()`.
RowReplacesUtf8(new, cur) == Gt("Utf8", new, cur)

\* partial_update with the validity test turned into a reset: a null row
\* clears the held value.
partial_update_null_clears(self, values, row_idx) ==
  IF self.tag = "Null" THEN Returns(self, "Ok")
  ELSE IF self.tag \notin UpdateTags THEN Returns(self, "NotImplemented")
  ELSE IF values.tag # self.tag THEN Returns(self, "Internal")
  ELSE IF IsNone(values.data[row_idx]) THEN Returns([self EXCEPT !.v = None], "Ok")
  ELSE LET new == Unwrap(values.data[row_idx])
           replace ==
             IF self.tag = "Utf8"
               THEN IsNone(self.v) \/ RowReplacesUtf8(new, Unwrap(self.v))
               ELSE IsNone(self.v) \/ RowReplaces(self.tag, new, Unwrap(self.v))
       IN Returns(IF replace THEN [self EXCEPT !.v = Some(new)] ELSE self, "Ok")

\* AggMaxAccum::partial_update(values, row_idx).
partial_update(self, values, row_idx) ==
  IF self.tag = "Null" THEN Returns(self, "Ok")
  ELSE IF self.tag \notin UpdateTags THEN Returns(self, "NotImplemented")
  ELSE IF values.tag # self.tag THEN Returns(self, "Internal")
  ELSE IF IsNone(values.data[row_idx]) THEN Returns(self, "Ok")
  ELSE LET new == Unwrap(values.data[row_idx])
           replace ==
             IF self.tag = "Utf8"
               THEN IsNone(self.v) \/ RowReplacesUtf8(new, Unwrap(self.v))
               ELSE IsNone(self.v) \/ RowReplaces(self.tag, new, Unwrap(self.v))
       IN Returns(IF replace THEN [self EXCEPT !.v = Some(new)] ELSE self, "Ok")

\* The comparison of the vectorized arms: `partial.unwrap() < w`; for Boolean
\* `!v.unwrap() & w`.
BatchReplaces(tag, cur, w) ==
  IF tag = "Boolean" THEN (~cur) /\ w ELSE Lt(tag, cur, w)

\* AggMaxAccum::partial_update_all(values).
partial_update_all(self, values) ==
  IF self.tag = "Null" THEN Returns(self, "Ok")
  ELSE IF self.tag \notin UpdateTags THEN Returns(self, "NotImplemented")
  ELSE IF values.tag # self.tag THEN Returns(self, "Internal")
  ELSE LET m == arrow_max(self.tag, values.data)
       IN IF IsNone(m) THEN Returns(self, "Ok")
          ELSE IF IsNone(self.v) \/ BatchReplaces(self.tag, Unwrap(self.v), Unwrap(m))
                 THEN Returns([self EXCEPT !.v = m], "Ok")
                 ELSE Returns(self, "Ok")

\* partial_merge_scalar with the assignment of the Empty case left out: an
\* Empty accumulator stays Empty.
partial_merge_scalar_no_adopt(self, another_value) ==
  IF is_null(another_value) \/ is_null(self) THEN Returns(self, "Ok")
  ELSE IF self.tag = another_value.tag /\ self.tag \in (UpdateTags \ {"Boolean"})
         THEN IF Gt(self.tag, Unwrap(another_value.v), Unwrap(self.v))
                THEN Returns([self EXCEPT !.v = another_value.v], "Ok")
                ELSE Returns(self, "Ok")
         ELSE Returns(self, "NotImplemented")

\* The comparison of the merge arms: `b.unwrap() > a.unwrap()`.
MergeReplaces(tag, b, a) == Gt(tag, b, a)

\* partial_merge_scalar assigning before it matches: the arm that returns
\* the error has already taken the other value.
partial_merge_scalar_clobbering(self, another_value) ==
  IF is_null(another_value) THEN Returns(self, "Ok")
  ELSE IF is_null(self) THEN Returns(another_value, "Ok")
  ELSE IF self.tag = another_value.tag /\ self.tag \in MergeTags
         THEN IF MergeReplaces(self.tag, Unwrap(another_value.v), Unwrap(self.v))
                THEN Returns([self EXCEPT !.v = another_value.v], "Ok")
                ELSE Returns(self, "Ok")
         ELSE Returns(another_value, "NotImplemented")

\* AggMaxAccum::partial_merge_scalar(another_value).
partial_merge_scalar(self, another_value) ==
  IF is_null(another_value) THEN Returns(self, "Ok")
  ELSE IF is_null(self) THEN Returns(another_value, "Ok")
  ELSE IF self.tag = another_value.tag /\ self.tag \in MergeTags
         THEN IF MergeReplaces(self.tag, Unwrap(another_value.v), Unwrap(self.v))
                THEN Returns([self EXCEPT !.v = another_value.v], "Ok")
                ELSE Returns(self, "Ok")
         ELSE Returns(self, "NotImplemented")

\* AggMaxAccum::partial_merge(another): another's partial is moved out of it.
partial_merge(self, another) == partial_merge_scalar(self, another)

\* crate::agg::save_scalar(scalar, builder): appends the value, or a null.
save_scalar(scalar, builder) == Append(builder, scalar.v)

\* crate::agg::load_scalar(scalar, array, row_idx): reads the entry of the
\* array into the scalar, which keeps its variant.
load_scalar(scalar, array, row_idx) ==
  IF array.tag # scalar.tag THEN Returns(scalar, "Internal")
  ELSE Returns([scalar EXCEPT !.v = array.data[row_idx]], "Ok")

\* partial_merge_from_array with the load_scalar call left out: the null
\* scalar is merged.
partial_merge_from_array_unloaded(self, partial_agg_values, row_idx) ==
  partial_merge_scalar(self, NullOf(get_datatype(self)))

\* partial_merge_from_array loading the row straight into the accumulator
\* (as AggAccum::load does) instead of merging it.
partial_merge_from_array_overwriting(self, partial_agg_values, row_idx) ==
  load_scalar(self, partial_agg_values, row_idx)

\* AggMaxAccum::partial_merge_from_array(partial_agg_values, row_idx).
partial_merge_from_array(self, partial_agg_values, row_idx) ==
  LET scalar == try_from(get_datatype(self))
      loaded == load_scalar(scalar.partial, partial_agg_values, row_idx)
  IN IF scalar.res # "Ok" THEN Returns(self, scalar.res)
     ELSE IF loaded.res # "Ok" THEN Returns(self, loaded.res)
     ELSE partial_merge_scalar(self, loaded.partial)

\* save_final that appends only a held value: a null state appends nothing.
save_final_skipping_null(self, builder) ==
  IF IsNone(self.v) THEN builder ELSE save_scalar(self, builder)

\* save that starts the column over: the row replaces what the builder held.
save_restarting(self, builders) == save_scalar(self, <<>>)

\* AggMaxAccum::save(builders) and save_final(builder).
save(self, builders) == save_scalar(self, builders)
save_final(self, builder) == save_scalar(self, builder)

\* ------------------------------------------------------------- state
VARIABLES
  data_type,  \* AggMax.data_type: the declared element type of the aggregate
  input,      \* the rows of the group, a column of data_type (None = null row)
  row_idx,    \* the next row of input to hand to an accumulator
  live,       \* the accumulators that exist (created and not moved away)
  partial,    \* AggMaxAccum.partial of each accumulator
  owned,      \* history: the row indices each accumulator has absorbed
  builders,   \* builders[0] of save: the partial-state column
  saved,      \* history: for each row of builders, the rows and state saved
  builder,    \* the builder of save_final: the output column
  ret         \* the last call and its Result

vars == <<data_type, input, row_idx, live, partial, owned, builders, saved, builder, ret>>

\* The declared types: every variant of the matches, Decimal128 as in the
\* decimal scenario (precision 10, scale 2), and a type without a variant.
DataTypes ==
  {DT(t) : t \in (AllTags \cup NoScalarTags) \ {"Decimal128"}} \cup {Decimal128(10, 2)}

Opt(tag) == {None} \cup {Some(v) : v \in Values(tag)}
Columns(tag) == UNION {[1..n -> Opt(tag)] : n \in 0..MaxLen}

\* AggMax::try_new has run; no accumulator exists yet.
Init ==
  /\ data_type \in DataTypes
  /\ input \in Columns(data_type.tag)
  /\ row_idx = 1
  /\ live = {}
  /\ partial = [i \in AccId |-> NullOf(data_type)]
  /\ owned = [i \in AccId |-> {}]
  /\ builders = <<>>
  /\ saved = <<>>
  /\ builder = <<>>
  /\ ret = [op |-> "try_new", res |-> "Ok"]

\* AggMax::create_accum.
CreateAccum(i) ==
  /\ i \notin live
  /\ LET out == create_accum(data_type)
     IN /\ ret' = [op |-> "create_accum", res |-> out.res]
        /\ IF out.res = "Ok"
             THEN /\ live' = live \cup {i}
                  /\ partial' = [partial EXCEPT ![i] = out.partial]
             ELSE UNCHANGED <<live, partial>>
  /\ owned' = [owned EXCEPT ![i] = {}]
  /\ UNCHANGED <<data_type, input, row_idx, builders, saved, builder>>

\* partial_update(values, row_idx) on the next row of the group's column.
UpdateOne(i) ==
  /\ i \in live
  /\ row_idx <= Len(input)
  /\ LET out == partial_update(partial[i], Array(data_type, input), row_idx)
     IN /\ partial' = [partial EXCEPT ![i] = out.partial]
        /\ ret' = [op |-> "partial_update", res |-> out.res]
  /\ row_idx' = row_idx + 1
  /\ owned' = [owned EXCEPT ![i] = @ \cup {row_idx}]
  /\ UNCHANGED <<data_type, input, live, builders, saved, builder>>

\* partial_update_all(values) on the next n rows of the group's column
\* (n = 0: an empty column).
UpdateBatch(i, n) ==
  /\ i \in live
  /\ row_idx + n <= Len(input) + 1
  /\ LET segment == SubSeq(input, row_idx, row_idx + n - 1)
         out == partial_update_all(partial[i], Array(data_type, segment))
     IN /\ partial' = [partial EXCEPT ![i] = out.partial]
        /\ ret' = [op |-> "partial_update_all", res |-> out.res]
  /\ row_idx' = row_idx + n
  /\ owned' = [owned EXCEPT ![i] = @ \cup (row_idx..(row_idx + n - 1))]
  /\ UNCHANGED <<data_type, input, live, builders, saved, builder>>

\* partial_merge(another): accumulator j is moved into the call and dropped.
\* No row is counted twice: the two have absorbed disjoint rows.
Merge(i, j) ==
  /\ i \in live
  /\ j \in live
  /\ i # j
  /\ owned[i] \cap owned[j] = {}
  /\ LET out == partial_merge(partial[i], partial[j])
     IN /\ partial' = [partial EXCEPT ![i] = out.partial, ![j] = NullOf(data_type)]
        /\ ret' = [op |-> "partial_merge", res |-> out.res]
  /\ live' = live \ {j}
  /\ owned' = [owned EXCEPT ![i] = @ \cup owned[j], ![j] = {}]
  /\ UNCHANGED <<data_type, input, row_idx, builders, saved, builder>>

\* save(builders), on fresh builders.
Save(i) ==
  /\ i \in live
  /\ builders = <<>>
  /\ builder = <<>>
  /\ builders' = save(partial[i], builders)
  /\ saved' = Append(saved, [rows |-> owned[i], state |-> partial[i]])
  /\ ret' = [op |-> "save", res |-> "Ok"]
  /\ UNCHANGED <<data_type, input, row_idx, live, partial, owned, builder>>

\* save_final(builder), on a fresh builder.
SaveFinal(i) ==
  /\ i \in live
  /\ builders = <<>>
  /\ builder = <<>>
  /\ builder' = save_final(partial[i], builder)
  /\ ret' = [op |-> "save_final", res |-> "Ok"]
  /\ UNCHANGED <<data_type, input, row_idx, live, partial, owned, builders, saved>>

\* partial_merge_from_array(partial_agg_values, row_idx) on row r of the
\* saved partial-state column. No row of the group is counted twice.
MergeFromArray(i, r) ==
  /\ i \in live
  /\ r \in 1..Len(builders)
  /\ owned[i] \cap saved[r].rows = {}
  /\ LET out == partial_merge_from_array(partial[i], Array(data_type, builders), r)
     IN /\ partial' = [partial EXCEPT ![i] = out.partial]
        /\ ret' = [op |-> "partial_merge_from_array", res |-> out.res]
  /\ owned' = [owned EXCEPT ![i] = @ \cup saved[r].rows]
  /\ UNCHANGED <<data_type, input, row_idx, live, builders, saved, builder>>

\* The in-memory aggregation of a group over three partitions.
Next ==
  \/ \E i \in AccId : CreateAccum(i)
  \/ \E i \in AccId : UpdateOne(i)
  \/ \E i \in AccId, n \in 0..MaxLen : UpdateBatch(i, n)
  \/ \E i \in AccId, j \in AccId : Merge(i, j)

Spec == Init /\ [][Next]_vars

\* The aggregation of a group over two partitions whose partial states are
\* also serialized and merged back from the serialized column.
NextShuffle ==
  \/ \E i \in ShuffleAccId : CreateAccum(i)
  \/ \E i \in ShuffleAccId : UpdateOne(i)
  \/ \E i \in ShuffleAccId, n \in 0..MaxLen : UpdateBatch(i, n)
  \/ \E i \in ShuffleAccId, j \in ShuffleAccId : Merge(i, j)
  \/ \E i \in ShuffleAccId : Save(i)
  \/ \E i \in ShuffleAccId : SaveFinal(i)
  \/ \E i \in ShuffleAccId, r \in 1..MaxLen : MergeFromArray(i, r)

SpecShuffle == Init /\ [][NextShuffle]_vars

\* -------------------------------------------------- repeated serialization
\* save(builders) on builders that may hold earlier rows.
SaveInto(i) ==
  /\ i \in live
  /\ Len(builders) + Len(builder) < MaxSaved
  /\ builders' = save(partial[i], builders)
  /\ saved' = Append(saved, [rows |-> owned[i], state |-> partial[i]])
  /\ ret' = [op |-> "save", res |-> "Ok"]
  /\ UNCHANGED <<data_type, input, row_idx, live, partial, owned, builder>>

\* save_final(builder) on a builder that may hold earlier rows.
SaveFinalInto(i) ==
  /\ i \in live
  /\ Len(builders) + Len(builder) < MaxSaved
  /\ builder' = save_final(partial[i], builder)
  /\ ret' = [op |-> "save_final", res |-> "Ok"]
  /\ UNCHANGED <<data_type, input, row_idx, live, partial, owned, builders, saved>>

\* The aggregation of a group over two partitions whose accumulators are
\* serialized at any point, any number of times.
NextSerialize ==
  \/ \E i \in ShuffleAccId : CreateAccum(i)
  \/ \E i \in ShuffleAccId : UpdateOne(i)
  \/ \E i \in ShuffleAccId, n \in 0..MaxLen : UpdateBatch(i, n)
  \/ \E i \in ShuffleAccId, j \in ShuffleAccId : Merge(i, j)
  \/ \E i \in ShuffleAccId : SaveInto(i)
  \/ \E i \in ShuffleAccId : SaveFinalInto(i)

\* The group of those runs has at most MaxSerializeLen rows.
InitSerialize == Init /\ Len(input) <= MaxSerializeLen

SpecSerialize == InitSerialize /\ [][NextSerialize]_vars

\* ---------------------------------------------- calls across descriptors
\* The AggAccum interface is untyped (ArrayRef, AggAccumRef): a caller can
\* hand an accumulator a column, or the accumulator, of another aggregate.
\* The accumulator the mismatched calls are made on.
MixedAccId == {"a"}

\* The declared types of the other aggregates: a second decimal type among
\* them (precision 12, scale 4).
OtherDataTypes ==
  {DT("Boolean"), DT("Int32"), DT("Utf8"), DT("LargeUtf8"),
   Decimal128(10, 2), Decimal128(12, 4)}

\* The states an accumulator of the given declared type gets into by
\* updates: null, or any value of a type partial_update has an arm for.
AccumStates(dt) ==
  {Scalar(dt, o) : o \in (IF dt.tag \in UpdateTags THEN Opt(dt.tag) ELSE {None})}

\* partial_update(values, 0) on a one-row column of another aggregate.
UpdateOneOf(i, dt, o) ==
  /\ i \in live
  /\ LET out == partial_update(partial[i], Array(dt, <<o>>), 1)
     IN /\ partial' = [partial EXCEPT ![i] = out.partial]
        /\ ret' = [op |-> "partial_update", res |-> out.res]
  /\ UNCHANGED <<data_type, input, row_idx, live, owned, builders, saved, builder>>

\* partial_update_all(values) on a one-row column of another aggregate.
UpdateBatchOf(i, dt, o) ==
  /\ i \in live
  /\ LET out == partial_update_all(partial[i], Array(dt, <<o>>))
     IN /\ partial' = [partial EXCEPT ![i] = out.partial]
        /\ ret' = [op |-> "partial_update_all", res |-> out.res]
  /\ UNCHANGED <<data_type, input, row_idx, live, owned, builders, saved, builder>>

\* partial_merge(another) with an accumulator of another aggregate, whose
\* partial is another.
MergeOf(i, another) ==
  /\ i \in live
  /\ LET out == partial_merge(partial[i], another)
     IN /\ partial' = [partial EXCEPT ![i] = out.partial]
        /\ ret' = [op |-> "partial_merge", res |-> out.res]
  /\ UNCHANGED <<data_type, input, row_idx, live, owned, builders, saved, builder>>

\* partial_merge_from_array(partial_agg_values, 0) on a one-row partial-state
\* column of another aggregate.
MergeFromArrayOf(i, dt, o) ==
  /\ i \in live
  /\ LET out == partial_merge_from_array(partial[i], Array(dt, <<o>>), 1)
     IN /\ partial' = [partial EXCEPT ![i] = out.partial]
        /\ ret' = [op |-> "partial_merge_from_array", res |-> out.res]
  /\ UNCHANGED <<data_type, input, row_idx, live, owned, builders, saved, builder>>

\* One accumulator fed the rows of its group and, in between, columns and
\* accumulators of other aggregates.
NextMixed ==
  \/ \E i \in MixedAccId : CreateAccum(i)
  \/ \E i \in MixedAccId : UpdateOne(i)
  \/ \E i \in MixedAccId, n \in 0..MaxLen : UpdateBatch(i, n)
  \/ \E i \in MixedAccId, dt \in OtherDataTypes : \E o \in Opt(dt.tag) : UpdateOneOf(i, dt, o)
  \/ \E i \in MixedAccId, dt \in OtherDataTypes : \E o \in Opt(dt.tag) : UpdateBatchOf(i, dt, o)
  \/ \E i \in MixedAccId, dt \in OtherDataTypes : \E another \in AccumStates(dt) : MergeOf(i, another)
  \/ \E i \in MixedAccId, dt \in OtherDataTypes : \E o \in Opt(dt.tag) : MergeFromArrayOf(i, dt, o)

\* The group of that accumulator has at most MaxMixedLen rows.
InitMixed == Init /\ Len(input) <= MaxMixedLen

SpecMixed == InitMixed /\ [][NextMixed]_vars

\* ------------------------------------------------------------ properties
\* The element types the aggregate supports: boolean, the integer widths,
\* the floats, decimal, text and the dates.
Supported == data_type.tag \in UpdateTags

Empty(sv) == IsNone(sv.v)
Holding(sv) == ~IsNone(sv.v)

\* The non-null values among the given rows of the group.
ValuesOf(rows) == {Unwrap(input[r]) : r \in {q \in rows : ~IsNone(input[q])}}

\* m is a largest element of S in the order of the element type: it is in S
\* and no element of S is strictly greater. (Under the IEEE order of the
\* floats a NaN is such an element, and so is the largest number of S.)
IsMaximal(tag, m, S) == m \in S /\ \A x \in S : ~Lt(tag, m, x)

\* The values an accumulator state holds: none or one.
Held(sv) == IF IsNone(sv.v) THEN {} ELSE {Unwrap(sv.v)}

\* C1: after update_one on a non-null row holding n the accumulator is
\* Holding(n) if it was Empty and Holding(max(a, n)) if it was Holding(a),
\* for every supported element type.
C1_RowUpdateKeepsLarger ==
  [][\A i \in AccId :
       (Supported /\ UpdateOne(i) /\ ~IsNone(input[row_idx])) =>
         /\ ret'.res = "Ok"
         /\ Holding(partial'[i])
         /\ IsMaximal(data_type.tag, Unwrap(partial'[i].v),
                      Held(partial[i]) \cup {Unwrap(input[row_idx])})]_vars

\* The state and Result of calling partial_update once per row 1..k of a column.
RECURSIVE RowFold(_, _, _)
RowFold(self, values, k) ==
  IF k = 0 THEN Returns(self, "Ok")
  ELSE LET prev == RowFold(self, values, k - 1)
       IN IF prev.res # "Ok" THEN prev
          ELSE partial_update(prev.partial, values, k)

\* C2: for every supported element type, every starting state and every
\* column, update_batch on the column ends in the same state as update_one
\* called once per row of the column.
C2_RowBatchEquivalence ==
  [][\A i \in AccId, n \in 0..MaxLen :
       (Supported /\ UpdateBatch(i, n)) =>
         LET column == Array(data_type, SubSeq(input, row_idx, row_idx + n - 1))
             rowwise == RowFold(partial[i], column, n)
         IN partial'[i] = rowwise.partial /\ ret'.res = rowwise.res]_vars

\* C3: however the rows of the group were split over partition accumulators,
\* fed to them (update_one, update_batch) and merged, an accumulator that has
\* absorbed every row is in the state of a single accumulator fed the whole
\* column.
C3_PartitionInvariance ==
  \A i \in live :
    (Supported /\ owned[i] = DOMAIN input) =>
      partial[i] =
        partial_update_all(create_accum(data_type).partial, Array(data_type, input)).partial

\* C4: merge succeeds; it leaves the accumulator unchanged when the other is
\* Empty, makes it hold the other's value when it is Empty itself, and
\* otherwise leaves it Holding(max(a, b)), for every supported element type.
C4_MergeRule ==
  [][\A i \in AccId, j \in AccId :
       (Supported /\ Merge(i, j)) =>
         /\ ret'.res = "Ok"
         /\ IF Empty(partial[j]) THEN partial'[i] = partial[i]
            ELSE IF Empty(partial[i]) THEN partial'[i] = partial[j]
            ELSE /\ Holding(partial'[i])
                 /\ IsMaximal(data_type.tag, Unwrap(partial'[i].v),
                              Held(partial[i]) \cup Held(partial[j]))]_vars

\* C5: for any three accumulators a, b, c of a supported element type,
\* merge(merge(a,b),c), merge(a,merge(b,c)) and merge(merge(a,c),b) all
\* succeed and end with the same serialized value.
C5_MergeOrderIrrelevant ==
  (Supported /\ live = AccId) =>
    LET a == partial["a"]
        b == partial["b"]
        c == partial["c"]
        ab == partial_merge(a, b)
        ab_c == partial_merge(ab.partial, c)
        bc == partial_merge(b, c)
        a_bc == partial_merge(a, bc.partial)
        ac == partial_merge(a, c)
        ac_b == partial_merge(ac.partial, b)
    IN /\ \A m \in {ab, ab_c, bc, a_bc, ac, ac_b} : m.res = "Ok"
       /\ save(ab_c.partial, <<>>) = save(a_bc.partial, <<>>)
       /\ save(ab_c.partial, <<>>) = save(ac_b.partial, <<>>)

\* C6: for a boolean accumulator every update_one, update_batch and merge
\* call succeeds, and the state is Holding(true) if any non-null input was
\* true, Holding(false) if non-null inputs were seen and all were false, and
\* Empty otherwise.
C6_BooleanMaxIsOr ==
  data_type.tag = "Boolean" =>
    /\ ret.res = "Ok"
    /\ \A i \in live :
         partial[i].v = IF TRUE \in ValuesOf(owned[i]) THEN Some(TRUE)
                        ELSE IF FALSE \in ValuesOf(owned[i]) THEN Some(FALSE)
                        ELSE None

\* C7: merging an Empty accumulator into any accumulator leaves the target
\* unchanged, and merging any accumulator into an Empty accumulator makes the
\* target's state the source's state, for every supported element type.
C7_MergeIdentity ==
  [][\A i \in AccId, j \in AccId :
       (Supported /\ Merge(i, j)) =>
         /\ Empty(partial[j]) => (partial'[i] = partial[i] /\ ret'.res = "Ok")
         /\ Empty(partial[i]) => (partial'[i] = partial[j] /\ ret'.res = "Ok")]_vars

\* The group has exactly one non-null row, so every merge of the run has an
\* Empty side; a merge has just returned, and one accumulator has absorbed
\* every row and holds that value.
C7_Witness ==
  /\ Supported
  /\ ret = [op |-> "partial_merge", res |-> "Ok"]
  /\ Cardinality({r \in DOMAIN input : ~IsNone(input[r])}) = 1
  /\ \E i \in live :
       /\ owned[i] = DOMAIN input
       /\ Held(partial[i]) = ValuesOf(DOMAIN input)

\* C8: save into a builder followed by merge_from_row of the saved row into
\* a fresh accumulator of the same declared type leaves the fresh accumulator
\* in the state that was saved, for every supported element type.
C8_SaveMergeRoundTrip ==
  [][\A i \in ShuffleAccId, r \in 1..MaxLen :
       (Supported /\ MergeFromArray(i, r) /\ partial[i] = create_accum(data_type).partial) =>
         /\ ret'.res = "Ok"
         /\ partial'[i] = saved[r].state]_vars

\* A merge_from_row has just returned and two accumulators have absorbed the
\* same non-null rows: the one that saved them and the one, until then without
\* rows, that read them back; it holds the saved value.
C8_Witness ==
  /\ Supported
  /\ ret = [op |-> "partial_merge_from_array", res |-> "Ok"]
  /\ \E i \in live, j \in live :
       /\ i # j
       /\ owned[i] = saved[1].rows
       /\ owned[j] = saved[1].rows
       /\ Holding(saved[1].state)
       /\ partial[i] = saved[1].state

\* C9: update_batch leaves the accumulator holding the largest of its current
\* value and the valid entries of the column (unchanged when the column has
\* no valid entry), for every supported element type and starting state.
C9_BatchUpdateKeepsMax ==
  [][\A i \in AccId, n \in 0..MaxLen :
       (Supported /\ UpdateBatch(i, n)) =>
         LET all == Held(partial[i]) \cup ValuesOf(row_idx..(row_idx + n - 1))
         IN /\ ret'.res = "Ok"
            /\ IF ValuesOf(row_idx..(row_idx + n - 1)) = {}
                 THEN partial'[i] = partial[i]
                 ELSE /\ Holding(partial'[i])
                      /\ IsMaximal(data_type.tag, Unwrap(partial'[i].v), all)]_vars

\* C10: across update_one, update_batch, merge and merge_from_row calls an
\* accumulator that is Holding never becomes Empty again and its held value
\* never decreases in the order of the element type.
C10_MonotoneTransitions ==
  [][\A i \in ShuffleAccId :
       (Supported /\ i \in live /\ i \in live' /\ Holding(partial[i])) =>
         /\ Holding(partial'[i])
         /\ ~Lt(data_type.tag, Unwrap(partial'[i].v), Unwrap(partial[i].v))]_vars

\* C11: in any accumulator state, update_one on a null row and update_batch
\* on a column whose entries are all null leave the state unchanged and
\* return success, for every supported element type.
C11_NullInputIsNoOp ==
  [][\A i \in AccId, n \in 0..MaxLen :
       /\ (Supported /\ UpdateOne(i) /\ IsNone(input[row_idx])) =>
            (partial'[i] = partial[i] /\ ret'.res = "Ok")
       /\ (Supported /\ UpdateBatch(i, n) /\ ValuesOf(row_idx..(row_idx + n - 1)) = {}) =>
            (partial'[i] = partial[i] /\ ret'.res = "Ok")]_vars

\* update_one has just returned from a null row, on an accumulator that holds
\* a value.
C11_Witness ==
  /\ Supported
  /\ ret = [op |-> "partial_update", res |-> "Ok"]
  /\ row_idx > 1
  /\ IsNone(input[row_idx - 1])
  /\ \E i \in live : (row_idx - 1) \in owned[i] /\ Holding(partial[i])

\* C12: an accumulator starts Empty and, as long as no operation applied to
\* it has carried a non-null value (null rows, all-null columns, merges of
\* Empty partial states, or nothing), it is still Empty, and save and
\* save_final both append null without error.
C12_EmptyGroupYieldsNull ==
  [][\A i \in ShuffleAccId :
       /\ (i \in live' /\ ValuesOf(owned'[i]) = {}) => Empty(partial'[i])
       /\ (Save(i) /\ ValuesOf(owned[i]) = {}) =>
            (builders' = Append(builders, None) /\ ret'.res = "Ok")
       /\ (SaveFinal(i) /\ ValuesOf(owned[i]) = {}) =>
            (builder' = Append(builder, None) /\ ret'.res = "Ok")]_vars

\* The column [null, null]: an accumulator has absorbed both rows and
\* save_final has just appended null.
C12_Witness ==
  /\ Supported
  /\ input = <<None, None>>
  /\ ret = [op |-> "save_final", res |-> "Ok"]
  /\ builder = <<None>>
  /\ \E i \in live : owned[i] = {1, 2} /\ Empty(partial[i])

\* a is before b in byte-lexicographic order: at the first position where
\* they differ a has the smaller byte, or a is a proper prefix of b.
ByteLexLess(a, b) ==
  \E k \in 1..Len(b) :
    /\ \A j \in 1..(k - 1) : j <= Len(a) /\ a[j] = b[j]
    /\ (k > Len(a) \/ a[k] < b[k])

\* C13: a text accumulator holds the byte-lexicographically largest non-null
\* string among the rows it has absorbed, whether they reached it through
\* update_one, update_batch or merge (Empty if it has absorbed none).
C13_TextMaxIsByteLexicographic ==
  data_type.tag = "Utf8" =>
    \A i \in live :
      IF ValuesOf(owned[i]) = {} THEN Empty(partial[i])
      ELSE /\ Holding(partial[i])
           /\ Unwrap(partial[i].v) \in ValuesOf(owned[i])
           /\ \A x \in ValuesOf(owned[i]) : ~ByteLexLess(Unwrap(partial[i].v), x)

\* The rows "ab", "a", "b" in that order (the middle, the smallest and the
\* largest string, as "banana", "apple", "cherry"): update_one has just
\* returned and the accumulator that absorbed the three rows holds "b".
C13_Witness ==
  /\ data_type.tag = "Utf8"
  /\ input = <<Some(<<97, 98>>), Some(<<97>>), Some(<<98>>)>>
  /\ ret = [op |-> "partial_update", res |-> "Ok"]
  /\ \E i \in live : owned[i] = {1, 2, 3} /\ partial[i].v = Some(<<98>>)

\* C14: a decimal accumulator has, after any sequence of update_one,
\* update_batch, merge and merge_from_row calls, the precision and scale it
\* was constructed with, also after a merge into it while Empty from a
\* decimal accumulator holding a value of another precision or scale.
C14_DecimalPrecisionScaleImmutable ==
  data_type.tag = "Decimal128" =>
    \A i \in live :
      partial[i].tag = "Decimal128" =>
        (partial[i].p = data_type.p /\ partial[i].s = data_type.s)

\* C15: after any sequence of update_one, update_batch, merge and
\* merge_from_row calls, among them calls presented with a value or an
\* accumulator of another element type, the variant of an accumulator is the
\* element type its descriptor declared: no call replaces it.
C15_VariantMatchesDeclaredType ==
  \A i \in live : partial[i].tag = data_type.tag


\* C16: on an accumulator whose element type the aggregate does not
\* implement (a variant that reaches the `other` arm), every update_one,
\* update_batch and merge call returns the unsupported-type error, whatever
\* the input and the state.
C16_UnsupportedTypeSurfaced ==
  [][\A i \in AccId, j \in AccId, n \in 0..MaxLen :
       (data_type.tag \in OtherTags
          /\ (UpdateOne(i) \/ UpdateBatch(i, n) \/ Merge(i, j))) =>
         ret'.res = "NotImplemented"]_vars

\* C17: merge_from_row on a partial-state column holding p at the given row
\* ends in the same accumulator state and the same success or error as merge
\* with an accumulator whose state is p, for every accumulator state and
\* every p (null or not) of the declared type.
C17_MergeFromRowIsMerge ==
  [][\A i \in ShuffleAccId, r \in 1..MaxLen :
       MergeFromArray(i, r) =>
         LET merged == partial_merge(partial[i], saved[r].state)
         IN partial'[i] = merged.partial /\ ret'.res = merged.res]_vars

\* merge_from_row has just returned on an accumulator that held a value of
\* its own rows, from a saved row that holds a value too.
C17_Witness ==
  /\ Supported
  /\ ret.op = "partial_merge_from_array"
  /\ Len(saved) = 1
  /\ Holding(saved[1].state)
  /\ \E i \in live :
       /\ saved[1].rows \subseteq owned[i]
       /\ ValuesOf(owned[i] \ saved[1].rows) # {}

\* C18: save and save_final leave the accumulator state unchanged, so they
\* can be called any number of times between updates and merges; each call
\* appends exactly the current state (the held value, or null when Empty),
\* and save and save_final append the same value.
C18_SerializationKeepsState ==
  [][\A i \in ShuffleAccId :
       /\ SaveInto(i) =>
            /\ partial' = partial
            /\ builders' = Append(builders, partial[i].v)
            /\ ret'.res = "Ok"
       /\ SaveFinalInto(i) =>
            /\ partial' = partial
            /\ builder' = Append(builder, partial[i].v)
            /\ ret'.res = "Ok"
       /\ i \in live => save(partial[i], <<>>) = save_final(partial[i], <<>>)]_vars

\* An accumulator was saved holding a value, absorbed further rows, and has
\* just been saved again: the column holds its two states, which differ.
C18_Witness ==
  /\ Supported
  /\ ret = [op |-> "save", res |-> "Ok"]
  /\ Len(builders) = 2
  /\ builders[1] # builders[2]
  /\ Holding(saved[1].state)
  /\ \E i \in live :
       /\ saved[1].rows \subseteq saved[2].rows
       /\ saved[1].rows # saved[2].rows
       /\ owned[i] = saved[2].rows
       /\ partial[i] = saved[2].state

\* C19: create_accum returns a fresh Empty accumulator for every declared
\* element type, supported or not: it has no error path.
C19_ConstructionCannotFail ==
  [][\A i \in AccId :
       CreateAccum(i) =>
         /\ ret'.res = "Ok"
         /\ i \in live'
         /\ partial'[i] = NullOf(data_type)]_vars

\* C20: whenever update_one, update_batch, merge or merge_from_row returns
\* an error (unsupported element type, failed downcast of the column), the
\* accumulator state after the call equals its state before the call.
C20_StateUnchangedOnError ==
  [][\A i \in MixedAccId :
       (i \in live /\ ret'.res # "Ok") => SameScalar(partial'[i], partial[i])]_vars

\* update_batch has just failed the downcast of its column on an accumulator
\* that holds a value.
C20_Witness ==
  /\ ret = [op |-> "partial_update_all", res |-> "Internal"]
  /\ \E i \in live : Holding(partial[i])

====
